---- MODULE Spec2Model ----
(***************************************************************************)
(* Production chains of motki: the interactive product command of          *)
(* cli/command/product.go together with the model.Product operations it    *)
(* calls (NewProduct, Cost, UpdateProductMarketPrices, SaveProduct,        *)
(* GetProduct).  The model package's product file is not part of the       *)
(* sources at hand; those operations follow the written specification.     *)
(* The alliance lookup of model/user.go (GetAlliance) is modelled next to   *)
(* it, on variables of its own.                                            *)
(*                                                                         *)
(* Decimals (shopspring/decimal) are exact rationals <<n, d>>, d > 0, in   *)
(* lowest terms.  decimal.Div rounds at DivisionPrecision = 16 fractional  *)
(* digits; every denominator that occurs here is far below 10^15, so the   *)
(* integer that Round(0) extracts from a quotient is the one it extracts   *)
(* from the exact quotient.                                                *)
(***************************************************************************)
EXTENDS Integers, Sequences, FiniteSets, TLC

VARIABLES catalog, market, tree, stack, display, lastOp, err, sync, store, ops,
          alliances, conns, apiCalls, ret

\* The state of the alliance lookups of model/user.go: the rows of
\* app.alliances, the connections taken from the pool and not given back,
\* the calls made to the remote API, and what the last lookup returned.
allianceVars == <<alliances, conns, apiCalls, ret>>

\* The state of the product command.
productVars == <<catalog, market, tree, stack, display, err, sync, store>>

vars == <<catalog, market, tree, stack, display, lastOp, err, sync, store, ops,
          alliances, conns, apiCalls, ret>>

(***************************************************************************)
(* Bounds.                                                                 *)
(***************************************************************************)
MaxOps == 3
MaxNest == 2

(***************************************************************************)
(* decimal.Decimal                                                         *)
(***************************************************************************)
Abs(n) == IF n < 0 THEN -n ELSE n

RECURSIVE GCD(_, _)
GCD(a, b) == IF b = 0 THEN a ELSE GCD(b, a % b)

Norm(n, d) ==
    LET s == IF d < 0 THEN -1 ELSE 1
        g == GCD(Abs(n), Abs(d))
    IN  IF n = 0 THEN <<0, 1>> ELSE <<(s * n) \div g, (s * d) \div g>>

Dec(n) == <<n, 1>>
Zero == <<0, 1>>
DAdd(a, b) == Norm(a[1] * b[2] + b[1] * a[2], a[2] * b[2])
DSub(a, b) == Norm(a[1] * b[2] - b[1] * a[2], a[2] * b[2])
DMul(a, b) == Norm(a[1] * b[1], a[2] * b[2])
DDiv(a, b) == Norm(a[1] * b[2], a[2] * b[1])
DLt(a, b) == a[1] * b[2] < b[1] * a[2]
DLe(a, b) == a[1] * b[2] <= b[1] * a[2]

\* big.Int Quo: division truncated toward zero (b > 0).
Quo(a, b) == IF a >= 0 THEN a \div b ELSE -((-a) \div b)

\* Decimal.Round(0): rescale to one fractional digit (truncating), move five
\* tenths away from zero, drop the digit.
DRound0(a) ==
    LET r == Quo(a[1] * 10, a[2])
        v == IF r < 0 THEN r - 5 ELSE r + 5
    IN  Quo(v, 10)

(***************************************************************************)
(* model.Product                                                           *)
(***************************************************************************)
ProductBuy == "buy"
ProductManufacture == "build"

defaultMarketRegionID == 10000043
Regions == {defaultMarketRegionID, 10000002}

Types == {1, 2, 3}

\* A bill-of-materials entry of the item catalog.
Mat(t, q) == [TypeID |-> t, Quantity |-> q]

\* Item catalogs.  Type 4 is unknown to every catalog.
GoodCatalog ==
    [t \in Types |-> CASE t = 1 -> <<Mat(2, 100)>>
                      [] t = 2 -> << >>
                      [] OTHER -> <<Mat(1, 3), Mat(2, 1)>>]

\* Malformed: the bills of materials refer to themselves (1 -> 2 -> 3 -> 1,
\* 3 -> 3).
CyclicCatalog ==
    [t \in Types |-> CASE t = 1 -> <<Mat(2, 1)>>
                      [] t = 2 -> <<Mat(3, 2)>>
                      [] OTHER -> <<Mat(1, 1), Mat(3, 1)>>]

\* Incomplete: type 1 needs a type the catalog cannot resolve.
BrokenCatalog ==
    [t \in Types |-> IF t = 1 THEN <<Mat(4, 1)>> ELSE << >>]

Catalogs == {GoodCatalog, CyclicCatalog, BrokenCatalog}

\* Tree Builder: the catalog cannot resolve some type the chain needs.
RECURSIVE CatalogLookupError(_, _, _)
CatalogLookupError(cat, typeID, path) ==
    \/ typeID \notin DOMAIN cat
    \/ /\ typeID \notin path
       /\ \E i \in 1..Len(cat[typeID]) :
              CatalogLookupError(cat, cat[typeID][i].TypeID, path \cup {typeID})

\* Tree Builder: every node starts as Buy, batch size 1, no material
\* efficiency; a type already on the current path is kept as a leaf.
RECURSIVE newProduct(_, _, _, _)
newProduct(cat, typeID, quantity, path) ==
    [ TypeID             |-> typeID,
      Quantity           |-> quantity,
      Kind               |-> ProductBuy,
      MarketPrice        |-> Zero,
      MarketRegionID     |-> 0,
      MaterialEfficiency |-> Zero,
      BatchSize          |-> 1,
      Materials          |->
          IF typeID \in path
          THEN << >>
          ELSE [ i \in 1..Len(cat[typeID]) |->
                   newProduct(cat, cat[typeID][i].TypeID,
                              cat[typeID][i].Quantity, path \cup {typeID}) ] ]

\* The builder with the root's own type left off the path it tracks.
NewProduct_RootOffPath(cat, typeID) ==
    [ newProduct(cat, typeID, 1, {}) EXCEPT
        !.Materials = [ i \in 1..Len(cat[typeID]) |->
                          newProduct(cat, cat[typeID][i].TypeID,
                                     cat[typeID][i].Quantity, {}) ] ]

NewProduct(cat, typeID) == newProduct(cat, typeID, 1, {})

\* Sum of f over the indices 1..n.
RECURSIVE DSum(_, _)
DSum(f, n) == IF n = 0 THEN Zero ELSE DAdd(DSum(f, n - 1), f[n])

\* Cost Engine: units of a material one production run of its parent draws;
\* nearest integer, a tie going away from zero.
RequiredQty(quantity, batchSize, me) ==
    LET x  == DDiv(Dec(quantity * batchSize), DAdd(Dec(1), me))
        n2 == 2 * Abs(x[1]) + x[2]
        m  == n2 \div (2 * x[2])
    IN  IF x[1] < 0 THEN -m ELSE m

\* Cost with the kind ignored: every node is rolled up from its materials.
RECURSIVE Cost_IgnoresKind(_)
Cost_IgnoresKind(p) ==
    IF p.Materials = << >>
    THEN p.MarketPrice
    ELSE DDiv(DSum([ i \in 1..Len(p.Materials) |->
                       DMul(Cost_IgnoresKind(p.Materials[i]),
                            Dec(RequiredQty(p.Materials[i].Quantity,
                                            p.BatchSize,
                                            p.MaterialEfficiency))) ],
                   Len(p.Materials)),
              Dec(p.BatchSize))

\* Cost Engine: unit cost of a node.
RECURSIVE Cost(_)
Cost(p) ==
    IF p.Kind = ProductBuy
    THEN p.MarketPrice
    ELSE DDiv(DSum([ i \in 1..Len(p.Materials) |->
                       DMul(Cost(p.Materials[i]),
                            Dec(RequiredQty(p.Materials[i].Quantity,
                                            p.BatchSize,
                                            p.MaterialEfficiency))) ],
                   Len(p.Materials)),
              Dec(p.BatchSize))

\* The synchronizer leaving nodes that are built in-house alone.
RECURSIVE UpdateProductMarketPrices_BuyOnly(_, _, _)
UpdateProductMarketPrices_BuyOnly(p, regionID, prices) ==
    IF p.Kind = ProductManufacture
    THEN [ p EXCEPT
             !.Materials = [ i \in 1..Len(p.Materials) |->
                               UpdateProductMarketPrices_BuyOnly(
                                   p.Materials[i], regionID, prices) ] ]
    ELSE [ p EXCEPT
             !.MarketRegionID = regionID,
             !.MarketPrice    = IF p.TypeID \in DOMAIN prices
                                THEN prices[p.TypeID] ELSE Zero,
             !.Materials      = [ i \in 1..Len(p.Materials) |->
                                    UpdateProductMarketPrices_BuyOnly(
                                        p.Materials[i], regionID, prices) ] ]

\* Price Synchronizer: stamp every node with the region and the average price
\* the service returned for its type, zero where it returned none.
RECURSIVE UpdateProductMarketPrices(_, _, _)
UpdateProductMarketPrices(p, regionID, prices) ==
    [ p EXCEPT
        !.MarketRegionID = regionID,
        !.MarketPrice    = IF p.TypeID \in DOMAIN prices
                           THEN prices[p.TypeID] ELSE Zero,
        !.Materials      = [ i \in 1..Len(p.Materials) |->
                               UpdateProductMarketPrices(p.Materials[i],
                                                         regionID, prices) ] ]

\* The type IDs of a chain.
RECURSIVE TypeIDs(_)
TypeIDs(p) ==
    {p.TypeID} \cup UNION { TypeIDs(p.Materials[i]) : i \in 1..Len(p.Materials) }

\* Types the price service had no entry for.
MissingPrices(p, prices) == TypeIDs(p) \ DOMAIN prices

(***************************************************************************)
(* Nodes of a chain are addressed by the path of material indices leading  *)
(* to them from the root.                                                  *)
(***************************************************************************)
RECURSIVE GetNode(_, _)
GetNode(p, path) ==
    IF path = << >> THEN p ELSE GetNode(p.Materials[Head(path)], Tail(path))

RECURSIVE SetNode(_, _, _)
SetNode(p, path, q) ==
    IF path = << >>
    THEN q
    ELSE [ p EXCEPT !.Materials[Head(path)] =
                       SetNode(p.Materials[Head(path)], Tail(path), q) ]

RECURSIVE Paths(_)
Paths(p) ==
    { << >> } \cup
    UNION { { <<i>> \o q : q \in Paths(p.Materials[i]) } :
            i \in 1..Len(p.Materials) }

(***************************************************************************)
(* Chain Repository adapter: a chain is stored as flat rows linked by      *)
(* id / parentId and rebuilt by grouping the rows by parentId.             *)
(***************************************************************************)
NoParent == 0

\* A row that does not carry the kind.
Row_WithoutKind(p, id, parentID) ==
    [ id                 |-> id,
      parentId           |-> parentID,
      typeId             |-> p.TypeID,
      quantity           |-> p.Quantity,
      kind               |-> ProductBuy,
      marketPrice        |-> p.MarketPrice,
      marketRegionId     |-> p.MarketRegionID,
      materialEfficiency |-> p.MaterialEfficiency,
      batchSize          |-> p.BatchSize ]

Row(p, id, parentID) ==
    [ id                 |-> id,
      parentId           |-> parentID,
      typeId             |-> p.TypeID,
      quantity           |-> p.Quantity,
      kind               |-> p.Kind,
      marketPrice        |-> p.MarketPrice,
      marketRegionId     |-> p.MarketRegionID,
      materialEfficiency |-> p.MaterialEfficiency,
      batchSize          |-> p.BatchSize ]

RECURSIVE Flatten(_, _, _)
RECURSIVE FlattenMaterials(_, _, _)
Flatten(p, parentID, id) ==
    <<Row(p, id, parentID)>> \o FlattenMaterials(p.Materials, id, id + 1)

FlattenMaterials(ms, parentID, id) ==
    IF ms = << >>
    THEN << >>
    ELSE LET h == Flatten(Head(ms), parentID, id)
         IN  h \o FlattenMaterials(Tail(ms), parentID, id + Len(h))

\* Save: the rows of the chain rooted at p, ids handed out from 1.
SaveProduct(p) == Flatten(p, NoParent, 1)

RowIDs(rows) == { rows[i].id : i \in 1..Len(rows) }
RootRows(rows) == { i \in 1..Len(rows) : rows[i].parentId = NoParent }
OrphanRows(rows) ==
    { i \in 1..Len(rows) :
        rows[i].parentId # NoParent /\ rows[i].parentId \notin RowIDs(rows) }

\* The rows whose parent is the row with the given id, in stored order.
ChildRows(rows, id) == SelectSeq(rows, LAMBDA r : r.parentId = id)

RECURSIVE Reconstruct(_, _)
Reconstruct(rows, r) ==
    [ TypeID             |-> r.typeId,
      Quantity           |-> r.quantity,
      Kind               |-> r.kind,
      MarketPrice        |-> r.marketPrice,
      MarketRegionID     |-> r.marketRegionId,
      MaterialEfficiency |-> r.materialEfficiency,
      BatchSize          |-> r.batchSize,
      Materials          |->
          LET cs == ChildRows(rows, r.id)
          IN  [ i \in 1..Len(cs) |-> Reconstruct(rows, cs[i]) ] ]

\* Load that counts the root rows and does not look for orphaned rows.
LoadFails_OrphansPass(rows) ==
    Cardinality(RootRows(rows)) # 1

\* Load fails on an orphaned row and on anything but exactly one root row.
LoadFails(rows) ==
    \/ Cardinality(RootRows(rows)) # 1
    \/ OrphanRows(rows) # {}

GetProduct(rows) ==
    Reconstruct(rows, rows[CHOOSE i \in RootRows(rows) : TRUE])

(***************************************************************************)
(* cli/command/product.go                                                  *)
(***************************************************************************)
NoProduct == [TypeID |-> 0]
NoDisplay == [shown |-> FALSE]

\* The last price synchronization: the region asked for and the types the
\* service had no price for (the warnings).
NoSync == [regionID |-> 0, missing |-> {}]
Synced(regionID, missing) == [regionID |-> regionID, missing |-> missing]

\* The quantity column with the fraction dropped instead of rounded.
qtyAfterME_Truncated(quantity, parentBatchSize, parentME) ==
    LET x == DDiv(DMul(Dec(quantity), parentBatchSize), DAdd(Dec(1), parentME))
    IN  Quo(x[1], x[2])

\* printChildProductInfo: the quantity column of a material line.
qtyAfterME(quantity, parentBatchSize, parentME) ==
    DRound0(DDiv(DMul(Dec(quantity), parentBatchSize),
                 DAdd(Dec(1), parentME)))

\* printChildProductInfo: one material line of the table.
printChildProductInfo(p, parentBatchSize, parentME) ==
    LET qty == qtyAfterME(p.Quantity, parentBatchSize, parentME)
    IN  [ costEach   |-> Cost(p),
          qtyAfterME |-> qty,
          costTotal  |-> DMul(Cost(p), Dec(qty)) ]

\* printProductInfo with the cost line left per output unit.
printProductInfo_UnitCost(p) ==
    LET batchSize     == Dec(p.BatchSize)
        costEach      == Cost(p)
        batchQuantity == DMul(Dec(p.Quantity), batchSize)
        sellEach      == DMul(p.MarketPrice, batchQuantity)
        profitEach    == DSub(sellEach, costEach)
        marginEach    == IF sellEach # Zero
                         THEN DMul(DDiv(profitEach, sellEach), Dec(100))
                         ELSE Zero
    IN  [ shown         |-> TRUE,
          product       |-> p,
          batchQuantity |-> batchQuantity,
          sellEach      |-> sellEach,
          costEach      |-> costEach,
          profitEach    |-> profitEach,
          marginEach    |-> marginEach,
          lines         |-> [ i \in 1..Len(p.Materials) |->
                                printChildProductInfo(p.Materials[i], batchSize,
                                                      p.MaterialEfficiency) ] ]

\* printProductInfo: the table and the totals printed for p.
printProductInfo(p) ==
    LET batchSize     == Dec(p.BatchSize)
        costEach      == DMul(Cost(p), batchSize)
        batchQuantity == DMul(Dec(p.Quantity), batchSize)
        sellEach      == DMul(p.MarketPrice, batchQuantity)
        profitEach    == DSub(sellEach, costEach)
        marginEach    == IF sellEach # Zero
                         THEN DMul(DDiv(profitEach, sellEach), Dec(100))
                         ELSE Zero
    IN  [ shown         |-> TRUE,
          product       |-> p,
          batchQuantity |-> batchQuantity,
          sellEach      |-> sellEach,
          costEach      |-> costEach,
          profitEach    |-> profitEach,
          marginEach    |-> marginEach,
          lines         |-> [ i \in 1..Len(p.Materials) |->
                                printChildProductInfo(p.Materials[i], batchSize,
                                                      p.MaterialEfficiency) ] ]

\* The default kinds applied at every depth instead of the first.
RECURSIVE DefaultKinds_Deep(_)
DefaultKinds_Deep(product) ==
    [ product EXCEPT
        !.Materials = [ i \in 1..Len(product.Materials) |->
            IF Len(product.Materials[i].Materials) > 0
            THEN [ DefaultKinds_Deep(product.Materials[i])
                     EXCEPT !.Kind = ProductManufacture ]
            ELSE product.Materials[i] ] ]

\* previewProduct: materials of the new chain that have materials of their
\* own are produced in-house by default.
DefaultKinds(product) ==
    [ product EXCEPT
        !.Materials = [ i \in 1..Len(product.Materials) |->
            IF Len(product.Materials[i].Materials) > 0
            THEN [ product.Materials[i] EXCEPT !.Kind = ProductManufacture ]
            ELSE product.Materials[i] ] ]

\* getProductLineIndex: line 0 is the product of the session, line i its
\* i-th material.
getProductLineIndex(p) == 0..Len(p.Materials)

(***************************************************************************)
(* model/user.go: GetAlliance                                              *)
(***************************************************************************)
AllianceIDs == {1, 2}

NoAlliance == [AllianceID |-> 0]
NoReturn == [id |-> 0, alliance |-> NoAlliance, err |-> "", remote |-> FALSE]

\* A row of app.alliances written some time ago, and the alliance as the
\* remote API describes it now.
StoredAlliance(id) == [AllianceID |-> id, Name |-> "stored"]
eveapiGetAlliance(id) == [AllianceID |-> id, Name |-> "fetched"]

\* What can go wrong during one lookup: pool.Open in getAllianceFromDB, the
\* query (an error other than sql.ErrNoRows), the remote API, pool.Open in
\* apiAllianceToDB, the INSERT.
Faults == {"none", "open", "query", "api", "open2", "exec"}

\* No lookup has been made: no row of the table matters, no connection is
\* open.
NoLookups ==
    /\ alliances = {}
    /\ conns = 0
    /\ apiCalls = 0
    /\ ret = NoReturn

\* getAllianceFromDB: open a connection, close it on return (defer), and
\* return the row, nothing when there is no row, or the error.
getAllianceFromDB(allianceID, fault) ==
    LET rows == { a \in alliances : a.AllianceID = allianceID } IN
    IF fault = "open"
    THEN [c |-> NoAlliance, err |-> "pool", opened |-> 0, closed |-> 0]
    ELSE IF fault = "query"
    THEN [c |-> NoAlliance, err |-> "query", opened |-> 1, closed |-> 1]
    ELSE IF rows = {}
    THEN [c |-> NoAlliance, err |-> "", opened |-> 1, closed |-> 1]
    ELSE [c |-> CHOOSE a \in rows : TRUE, err |-> "",
          opened |-> 1, closed |-> 1]

\* apiAllianceToDB that returns the alliance without inserting it.
apiAllianceToDB_NoInsert(alliance, fault) ==
    IF fault = "open2"
    THEN [c |-> NoAlliance, err |-> "pool", opened |-> 0, closed |-> 0,
          inserted |-> {}]
    ELSE IF fault = "exec"
    THEN [c |-> NoAlliance, err |-> "exec", opened |-> 1, closed |-> 0,
          inserted |-> {}]
    ELSE [c |-> alliance, err |-> "", opened |-> 1, closed |-> 0,
          inserted |-> {}]

\* apiAllianceToDB: open a connection, insert the row, return it.  No
\* path closes the connection.
apiAllianceToDB(alliance, fault) ==
    IF fault = "open2"
    THEN [c |-> NoAlliance, err |-> "pool", opened |-> 0, closed |-> 0,
          inserted |-> {}]
    ELSE IF fault = "exec"
    THEN [c |-> NoAlliance, err |-> "exec", opened |-> 1, closed |-> 0,
          inserted |-> {}]
    ELSE [c |-> alliance, err |-> "", opened |-> 1, closed |-> 0,
          inserted |-> {alliance}]

\* getAllianceFromAPI: ask the remote API and write the answer back.
getAllianceFromAPI(allianceID, fault) ==
    IF fault = "api"
    THEN [c |-> NoAlliance, err |-> "api", opened |-> 0, closed |-> 0,
          inserted |-> {}]
    ELSE apiAllianceToDB(eveapiGetAlliance(allianceID), fault)

\* GetAlliance: the local row when there is one, the remote answer when
\* there is none, the error when the local query failed.
GetAlliance(allianceID, fault) ==
    LET db     == getAllianceFromDB(allianceID, fault)
        remote == db.err = "" /\ db.c = NoAlliance
        api    == getAllianceFromAPI(allianceID, fault)
    IN  /\ ops < MaxOps
        /\ ops' = ops + 1
        /\ lastOp' = "GetAlliance"
        /\ IF remote
           THEN /\ ret' = [id |-> allianceID, alliance |-> api.c,
                           err |-> api.err, remote |-> TRUE]
                /\ apiCalls' = apiCalls + 1
                /\ alliances' = alliances \cup api.inserted
                /\ conns' = conns + db.opened - db.closed
                                  + api.opened - api.closed
           ELSE /\ ret' = [id |-> allianceID, alliance |-> db.c,
                           err |-> db.err, remote |-> FALSE]
                /\ conns' = conns + db.opened - db.closed
                /\ UNCHANGED <<alliances, apiCalls>>
        /\ UNCHANGED productVars

(***************************************************************************)
(* What the environment may answer and the operator may type.              *)
(***************************************************************************)
PricesA == [t \in {1, 2, 3} |-> CASE t = 1 -> Dec(5) [] t = 2 -> Dec(1) [] OTHER -> Dec(2)]
PricesB == [t \in {1, 2} |-> IF t = 1 THEN <<5, 2>> ELSE Dec(3)]

Markets ==
    { [r \in Regions |-> IF r = defaultMarketRegionID THEN PricesA ELSE PricesB],
      [r \in Regions |-> IF r = defaultMarketRegionID THEN PricesB ELSE PricesA] }

DecimalInputs == {Zero, Dec(1), Dec(-1)}
EfficiencyInputs == {<<1, 10>>, Dec(1)}
BatchInputs == {0, 2, 10}
ModeInputs == {"buy", "build"}

Init ==
    /\ catalog \in Catalogs
    /\ market \in Markets
    /\ tree = NoProduct
    /\ stack = << >>
    /\ display = NoDisplay
    /\ lastOp = "init"
    /\ err = ""
    /\ sync = NoSync
    /\ store = << >>
    /\ ops = 0
    /\ NoLookups

\* The price service changes its answers.
MarketMove(m) ==
    /\ m # market
    /\ market' = m
    /\ lastOp' = "market"
    /\ err' = ""
    /\ sync' = NoSync
    /\ UNCHANGED <<catalog, tree, stack, display, store, ops>>
    /\ UNCHANGED allianceVars

\* previewProduct: build the chain, default the kinds, fetch the prices of
\* the default region.  No product is returned when either service fails.
previewProduct(typeID, priceServiceFails) ==
    IF CatalogLookupError(catalog, typeID, {})
    THEN [err |-> "catalog", product |-> NoProduct, sync |-> NoSync]
    ELSE IF priceServiceFails
    THEN [err |-> "price", product |-> NoProduct, sync |-> NoSync]
    ELSE LET product == DefaultKinds(NewProduct(catalog, typeID))
             prices  == market[defaultMarketRegionID]
         IN  [ err     |-> "",
               product |-> UpdateProductMarketPrices(product,
                               defaultMarketRegionID, prices),
               sync    |-> Synced(defaultMarketRegionID,
                                  MissingPrices(product, prices)) ]

\* "product new": newProduct opens the editor on the previewed chain.
NewCmd(typeID, priceServiceFails) ==
    LET r == previewProduct(typeID, priceServiceFails) IN
    /\ stack = << >>
    /\ ops < MaxOps
    /\ ops' = ops + 1
    /\ lastOp' = "new"
    /\ err' = r.err
    /\ sync' = r.sync
    /\ display' = IF r.err = "" THEN printProductInfo(r.product) ELSE display
    /\ tree' = r.product
    /\ stack' = IF r.err = "" THEN << << >> >> ELSE << >>
    /\ UNCHANGED <<catalog, market, store>>
    /\ UNCHANGED allianceVars

\* "product edit": editProduct loads a stored chain and opens the editor.
EditCmd(productID, storeFails) ==
    LET failed == storeFails \/ LoadFails(store[productID]) IN
    /\ stack = << >>
    /\ ops < MaxOps
    /\ productID \in 1..Len(store)
    /\ ops' = ops + 1
    /\ lastOp' = "edit"
    /\ err' = IF failed THEN "load" ELSE ""
    /\ sync' = NoSync
    /\ tree' = IF failed THEN NoProduct ELSE GetProduct(store[productID])
    /\ display' = IF failed THEN display
                  ELSE printProductInfo(GetProduct(store[productID]))
    /\ stack' = IF failed THEN << >> ELSE << << >> >>
    /\ UNCHANGED <<catalog, market, store>>
    /\ UNCHANGED allianceVars

(***************************************************************************)
(* productEditor: every running session is a path on the stack; the        *)
(* innermost one reads the next operation.                                 *)
(***************************************************************************)
InEditor == stack # << >>
cur == stack[Len(stack)]
Session == GetNode(tree, cur)
LinePath(line) == IF line = 0 THEN cur ELSE Append(cur, line)
Return == SubSeq(stack, 1, Len(stack) - 1)

\* The bookkeeping every operation of the editor loop shares.
Operation(op, e) ==
    /\ InEditor
    /\ ops < MaxOps
    /\ ops' = ops + 1
    /\ lastOp' = op
    /\ err' = e
    /\ UNCHANGED <<catalog, market>>
    /\ UNCHANGED allianceVars

\* Q: leave the session.
OpQ ==
    /\ Operation("Q", "")
    /\ stack' = Return
    /\ tree' = IF Len(stack) = 1 THEN NoProduct ELSE tree
    /\ sync' = NoSync
    /\ UNCHANGED <<display, store>>

\* S that leaves the session whether or not the save succeeded.
OpS_AlwaysLeaves(storeFails) ==
    /\ Operation("S", IF storeFails THEN "save" ELSE "")
    /\ sync' = NoSync
    /\ store' = IF storeFails THEN store
                ELSE Append(store, SaveProduct(Session))
    /\ stack' = Return
    /\ tree' = IF Len(stack) = 1 THEN NoProduct ELSE tree
    /\ UNCHANGED display

\* S: save the product of the session; leave only when the save succeeded.
OpS(storeFails) ==
    /\ Operation("S", IF storeFails THEN "save" ELSE "")
    /\ sync' = NoSync
    /\ IF storeFails
       THEN UNCHANGED <<tree, stack, store>>
       ELSE /\ store' = Append(store, SaveProduct(Session))
            /\ stack' = Return
            /\ tree' = IF Len(stack) = 1 THEN NoProduct ELSE tree
    /\ UNCHANGED display

\* D: print a line's product and edit it in a nested session.
OpD(line) ==
    /\ Operation("D", "")
    /\ line \in getProductLineIndex(Session)
    /\ Len(stack) < MaxNest
    /\ display' = printProductInfo(GetNode(tree, LinePath(line)))
    /\ stack' = Append(stack, LinePath(line))
    /\ sync' = NoSync
    /\ UNCHANGED <<tree, store>>

\* C: set the cost per unit of a line.
OpC(line, val) ==
    /\ Operation("C", "")
    /\ line \in getProductLineIndex(Session)
    /\ tree' = SetNode(tree, LinePath(line),
                       [GetNode(tree, LinePath(line)) EXCEPT !.MarketPrice = val])
    /\ sync' = NoSync
    /\ UNCHANGED <<stack, display, store>>

\* F: set the material efficiency of a line.
OpF(line, val) ==
    /\ Operation("F", "")
    /\ line \in getProductLineIndex(Session)
    /\ tree' = SetNode(tree, LinePath(line),
                       [GetNode(tree, LinePath(line)) EXCEPT
                           !.MaterialEfficiency = val])
    /\ sync' = NoSync
    /\ UNCHANGED <<stack, display, store>>

\* M: set the production mode of a line.
OpM(line, val) ==
    /\ Operation("M", "")
    /\ line \in getProductLineIndex(Session)
    /\ tree' = SetNode(tree, LinePath(line),
                       [GetNode(tree, LinePath(line)) EXCEPT
                           !.Kind = IF val = "buy" THEN ProductBuy
                                    ELSE ProductManufacture])
    /\ sync' = NoSync
    /\ UNCHANGED <<stack, display, store>>

validateIntGreaterThan(n, val) == val > n

\* B: set the batch size of a line.
OpB(line, val) ==
    /\ Operation("B", "")
    /\ line \in getProductLineIndex(Session)
    /\ validateIntGreaterThan(0, val)
    /\ tree' = SetNode(tree, LinePath(line),
                       [GetNode(tree, LinePath(line)) EXCEPT !.BatchSize = val])
    /\ sync' = NoSync
    /\ UNCHANGED <<stack, display, store>>

\* P: set the sell price of the session's product.
OpP(val) ==
    /\ Operation("P", "")
    /\ tree' = SetNode(tree, cur, [Session EXCEPT !.MarketPrice = val])
    /\ sync' = NoSync
    /\ UNCHANGED <<stack, display, store>>

\* V with the table printed last shown again when it was printed for the
\* same type.
OpV_Cached ==
    /\ Operation("V", "")
    /\ display' = IF display.shown /\ display.product.TypeID = Session.TypeID
                  THEN display
                  ELSE printProductInfo(Session)
    /\ sync' = NoSync
    /\ UNCHANGED <<tree, stack, store>>

\* V: print the session's product.
OpV ==
    /\ Operation("V", "")
    /\ display' = printProductInfo(Session)
    /\ sync' = NoSync
    /\ UNCHANGED <<tree, stack, store>>

\* U with the prices of the default region fetched, whatever region the
\* product carries.
OpU_DefaultRegion(priceServiceFails) ==
    LET regionID == defaultMarketRegionID IN
    /\ Operation("U", IF priceServiceFails THEN "price" ELSE "")
    /\ IF priceServiceFails
       THEN UNCHANGED <<tree, sync>>
       ELSE /\ tree' = SetNode(tree, cur,
                          UpdateProductMarketPrices(Session, regionID,
                                                    market[regionID]))
            /\ sync' = Synced(regionID, MissingPrices(Session, market[regionID]))
    /\ UNCHANGED <<stack, display, store>>

\* U: fetch the prices of the product's own region again.
OpU(priceServiceFails) ==
    LET regionID == Session.MarketRegionID IN
    /\ Operation("U", IF priceServiceFails THEN "price" ELSE "")
    /\ IF priceServiceFails
       THEN UNCHANGED <<tree, sync>>
       ELSE /\ tree' = SetNode(tree, cur,
                          UpdateProductMarketPrices(Session, regionID,
                                                    market[regionID]))
            /\ sync' = Synced(regionID, MissingPrices(Session, market[regionID]))
    /\ UNCHANGED <<stack, display, store>>

\* R with the region recorded on the product before the prices are fetched.
OpR_RegionFirst(regionID, priceServiceFails) ==
    /\ Operation("R", IF priceServiceFails THEN "price" ELSE "")
    /\ IF priceServiceFails
       THEN /\ tree' = SetNode(tree, cur,
                          [Session EXCEPT !.MarketRegionID = regionID])
            /\ UNCHANGED sync
       ELSE /\ tree' = SetNode(tree, cur,
                          UpdateProductMarketPrices(Session, regionID,
                                                    market[regionID]))
            /\ sync' = Synced(regionID, MissingPrices(Session, market[regionID]))
    /\ UNCHANGED <<stack, display, store>>

\* R: fetch the prices of another region.
OpR(regionID, priceServiceFails) ==
    /\ Operation("R", IF priceServiceFails THEN "price" ELSE "")
    /\ IF priceServiceFails
       THEN UNCHANGED <<tree, sync>>
       ELSE /\ tree' = SetNode(tree, cur,
                          UpdateProductMarketPrices(Session, regionID,
                                                    market[regionID]))
            /\ sync' = Synced(regionID, MissingPrices(Session, market[regionID]))
    /\ UNCHANGED <<stack, display, store>>

\* ?: print the help text.
OpHelp ==
    /\ Operation("?", "")
    /\ sync' = NoSync
    /\ UNCHANGED <<tree, stack, display, store>>

Lines == 0..2

Next ==
    \/ \E m \in Markets : MarketMove(m)
    \/ \E t \in Types, f \in BOOLEAN : NewCmd(t, f)
    \/ \E id \in 1..MaxOps, f \in BOOLEAN : EditCmd(id, f)
    \/ OpQ
    \/ \E f \in BOOLEAN : OpS(f)
    \/ \E l \in Lines : OpD(l)
    \/ \E l \in Lines, v \in DecimalInputs : OpC(l, v)
    \/ \E l \in Lines, v \in EfficiencyInputs : OpF(l, v)
    \/ \E l \in Lines, v \in ModeInputs : OpM(l, v)
    \/ \E l \in Lines, v \in BatchInputs : OpB(l, v)
    \/ \E v \in DecimalInputs : OpP(v)
    \/ OpV
    \/ \E f \in BOOLEAN : OpU(f)
    \/ \E r \in Regions, f \in BOOLEAN : OpR(r, f)
    \/ OpHelp

Spec == Init /\ [][Next]_vars

(***************************************************************************)
(* The cost engine and the printed table on edited chains: the editor is   *)
(* open on a chain of the first catalog whose nodes carry any mix of the   *)
(* values the editor operations M, B, F and C can give them, and the       *)
(* operator looks at it (V), descends into lines (D) and returns (Q).      *)
(***************************************************************************)
RECURSIVE Edited(_)
Edited(p) ==
    LET n    == Len(p.Materials)
        each == UNION { Edited(p.Materials[i]) : i \in 1..n }
        mats == { ms \in [1..n -> each] :
                    \A i \in 1..n : ms[i] \in Edited(p.Materials[i]) }
    IN  IF n = 0
        THEN { [p EXCEPT !.Kind = k, !.MarketPrice = c] :
                 k \in {ProductBuy, ProductManufacture},
                 c \in {Dec(1), <<5, 2>>} }
        ELSE { [p EXCEPT !.Kind = k, !.BatchSize = b,
                         !.MaterialEfficiency = e, !.Materials = ms] :
                 k \in {ProductBuy, ProductManufacture},
                 b \in {1, 10},
                 e \in {Zero} \cup EfficiencyInputs,
                 ms \in mats }

InitCost ==
    /\ catalog = GoodCatalog
    /\ market \in Markets
    /\ market[defaultMarketRegionID] = PricesA
    /\ \E t \in {1, 3} :
          tree \in Edited(previewProduct(t, FALSE).product)
    /\ stack = << << >> >>
    /\ display = NoDisplay
    /\ lastOp = "init"
    /\ err = ""
    /\ sync = NoSync
    /\ store = << >>
    /\ ops = 0
    /\ NoLookups

NextCost ==
    \/ OpV
    \/ \E l \in Lines : OpD(l)
    \/ OpQ

SpecCost == InitCost /\ [][NextCost]_vars

(***************************************************************************)
(* Loading stored chains: the store holds the rows of a chain as they were *)
(* saved, or with the parent of one row changed, or with one row gone, and *)
(* the operator opens it ("product edit"), looks at it and leaves.         *)
(***************************************************************************)
Damaged(rows) ==
    LET n == Len(rows) IN
    { [rows EXCEPT ![i].parentId = q] : i \in 1..n, q \in 0..(n + 1) }
      \cup { SubSeq(rows, 1, i - 1) \o SubSeq(rows, i + 1, n) : i \in 1..n }

InitLoad ==
    /\ catalog = GoodCatalog
    /\ market \in Markets
    /\ market[defaultMarketRegionID] = PricesA
    /\ tree = NoProduct
    /\ stack = << >>
    /\ display = NoDisplay
    /\ lastOp = "init"
    /\ err = ""
    /\ sync = NoSync
    /\ \E t \in {1, 3} :
          \E rows \in Damaged(SaveProduct(previewProduct(t, FALSE).product)) :
             store = <<rows>>
    /\ ops = 0
    /\ NoLookups

NextLoad ==
    \/ \E id \in 1..MaxOps, f \in BOOLEAN : EditCmd(id, f)
    \/ OpV
    \/ \E l \in Lines : OpD(l)
    \/ OpQ

SpecLoad == InitLoad /\ [][NextLoad]_vars

(***************************************************************************)
(* Alliance lookups: the table holds rows for some of the alliances, and   *)
(* lookups are made one after the other.                                   *)
(***************************************************************************)
InitAlliance ==
    /\ catalog = GoodCatalog
    /\ market \in Markets
    /\ market[defaultMarketRegionID] = PricesA
    /\ tree = NoProduct
    /\ stack = << >>
    /\ display = NoDisplay
    /\ lastOp = "init"
    /\ err = ""
    /\ sync = NoSync
    /\ store = << >>
    /\ ops = 0
    /\ alliances \in SUBSET { StoredAlliance(id) : id \in AllianceIDs }
    /\ conns = 0
    /\ apiCalls = 0
    /\ ret = NoReturn

NextAlliance ==
    \E id \in AllianceIDs, fault \in Faults : GetAlliance(id, fault)

SpecAlliance == InitAlliance /\ [][NextAlliance]_vars

(***************************************************************************)
(* Properties.                                                             *)
(***************************************************************************)
Nodes(p) == { GetNode(p, path) : path \in Paths(p) }

\* Sum over the materials of p of Cost(m) times the quantity column the
\* table prints for m under p.
MaterialCost(p) ==
    DSum([ i \in 1..Len(p.Materials) |->
             DMul(Cost(p.Materials[i]),
                  Dec(qtyAfterME(p.Materials[i].Quantity, Dec(p.BatchSize),
                                 p.MaterialEfficiency))) ],
         Len(p.Materials))

LineTotal(d) == DSum([ i \in 1..Len(d.lines) |-> d.lines[i].costTotal ],
                     Len(d.lines))

\* The chain of the worked example: a Build root with batch size 10 and
\* material efficiency 0.1 over one Buy material, 100 units at 1.00.
Example(p) ==
    /\ p.Kind = ProductManufacture
    /\ p.BatchSize = 10
    /\ p.MaterialEfficiency = <<1, 10>>
    /\ Len(p.Materials) = 1
    /\ p.Materials[1].Kind = ProductBuy
    /\ p.Materials[1].Quantity = 100
    /\ p.Materials[1].MarketPrice = Dec(1)

\* C1: the cost of a Build node is the sum over its materials of the
\* material's cost times its required quantity, divided by the node's batch
\* size; the cost line printed for a Build product is the sum of the totals
\* of its material lines; a Build node without materials costs 0, and the
\* worked example costs 90.9.
C1_BuildCostIsRollup ==
    /\ \A p \in (IF InEditor THEN Nodes(tree) ELSE {}) :
          p.Kind = ProductManufacture =>
             /\ Cost(p) = DDiv(MaterialCost(p), Dec(p.BatchSize))
             /\ (p.Materials = << >> => Cost(p) = Zero)
    /\ (display.shown /\ display.product.Kind = ProductManufacture) =>
          display.costEach = LineTotal(display)
    /\ (InEditor /\ Example(tree)) => Cost(tree) = <<909, 10>>

C1_Witness ==
    /\ InEditor
    /\ Example(tree)
    /\ display.shown
    /\ display.product = tree
    /\ display.costEach = Dec(909)
    /\ display.lines[1].qtyAfterME = 909

\* x = n/d lies within one half of the integer q, and at exactly one half
\* only when q is the neighbour farther from zero.
NearestTiesAway(q, x) ==
    /\ 2 * Abs(q * x[2] - x[1]) <= x[2]
    /\ 2 * Abs(q * x[2] - x[1]) = x[2] => Abs(q) * x[2] > Abs(x[1])

\* C2: the quantity printed for a material is its quantity times the batch
\* size of the product it is listed under, divided by one plus that
\* product's material efficiency, rounded to the nearest integer with a tie
\* going away from zero; the product is the direct parent of the material.
C2_RequiredQuantity ==
    display.shown =>
       /\ InEditor => display.product \in Nodes(tree)
       /\ Len(display.lines) = Len(display.product.Materials)
       /\ \A i \in 1..Len(display.lines) :
             NearestTiesAway(
                 display.lines[i].qtyAfterME,
                 DDiv(Dec(display.product.Materials[i].Quantity
                          * display.product.BatchSize),
                      DAdd(Dec(1), display.product.MaterialEfficiency)))

\* A table whose two lines are both ties (3/2 -> 2, 1/2 -> 1), printed for a
\* product whose first material has a batch size and a material efficiency
\* of its own.
C2_Witness ==
    /\ InEditor
    /\ display.shown
    /\ display.product = tree
    /\ tree.MaterialEfficiency = Dec(1)
    /\ tree.BatchSize = 1
    /\ Len(tree.Materials) = 2
    /\ tree.Materials[1].BatchSize = 10
    /\ tree.Materials[1].MaterialEfficiency = <<1, 10>>
    /\ display.lines[1].qtyAfterME = 2
    /\ display.lines[2].qtyAfterME = 1

\* C3: the cost of a Buy node is its market price, whatever its materials
\* are; the table prints that price in the cost column of a Buy line.
C3_BuyCostIsMarketPrice ==
    /\ \A p \in (IF InEditor THEN Nodes(tree) ELSE {}) : p.Kind = ProductBuy => Cost(p) = p.MarketPrice
    /\ display.shown =>
          \A i \in 1..Len(display.lines) :
             display.product.Materials[i].Kind = ProductBuy =>
                display.lines[i].costEach =
                    display.product.Materials[i].MarketPrice

\* A Buy root over a Build material that itself costs something else.
C3_Witness ==
    /\ InEditor
    /\ display.shown
    /\ display.product = tree
    /\ tree.Kind = ProductBuy
    /\ Len(tree.Materials) = 2
    /\ tree.Materials[1].Kind = ProductManufacture
    /\ Cost(tree.Materials[1]) # Zero
    /\ tree.Materials[2].Kind = ProductBuy
    /\ MaterialCost(tree) # Zero
    /\ Cost(tree) = tree.MarketPrice

\* C4: in every chain an editor session holds, no node has a negative cost.
C4_CostNeverNegative ==
    InEditor => \A p \in Nodes(tree) : DLe(Zero, Cost(p))

\* C5: every node of a chain an editor session holds has quantity >= 0,
\* batch size >= 1, 0 <= material efficiency < 1 and market price >= 0.
C5_FieldRanges ==
    InEditor =>
       \A p \in Nodes(tree) :
          /\ p.Quantity >= 0
          /\ p.BatchSize >= 1
          /\ DLe(Zero, p.MaterialEfficiency)
          /\ DLt(p.MaterialEfficiency, Dec(1))
          /\ DLe(Zero, p.MarketPrice)

\* C6: a step in which the price service failed leaves every node of the
\* chain as it was: no market price and no market region is changed.
C6_FailedSyncChangesNothing ==
    [][err' = "price" => tree' = tree]_vars

\* A failed U or R at a moment when fetching the prices of either region
\* would have changed the chain.
C6_Witness ==
    /\ InEditor
    /\ lastOp \in {"U", "R"}
    /\ err = "price"
    /\ \A r \in Regions :
          UpdateProductMarketPrices(Session, r, market[r]) # Session

\* C7: after a successful price synchronization every node of the
\* synchronized chain, at every depth and of either kind, carries the region
\* asked for and the average price the service holds for its type, or 0 when
\* the service has none; the types without a price are reported as warnings
\* and the operation succeeds.
C7_SyncStampsEveryNode ==
    (lastOp \in {"new", "U", "R"} /\ err = "") =>
       /\ InEditor
       /\ sync.regionID \in Regions
       /\ lastOp = "new" => sync.regionID = defaultMarketRegionID
       /\ \A p \in Nodes(Session) :
             /\ p.MarketRegionID = sync.regionID
             /\ p.TypeID \in DOMAIN market[sync.regionID] =>
                   p.MarketPrice = market[sync.regionID][p.TypeID]
             /\ p.TypeID \notin DOMAIN market[sync.regionID] =>
                   p.MarketPrice = Zero
       /\ sync.missing = { p.TypeID : p \in Nodes(Session) }
                            \ DOMAIN market[sync.regionID]

\* A chain of three types synchronized for a region that has no price for
\* one of them: that node is at 0, the others, a Build node among them, are
\* at the prices of the region.
C7_Witness ==
    /\ InEditor
    /\ lastOp = "R"
    /\ err = ""
    /\ sync.missing = {tree.TypeID}
    /\ tree.MarketPrice = Zero
    /\ Len(tree.Materials) = 2
    /\ tree.Materials[1].Kind = ProductManufacture
    /\ tree.Materials[1].MarketPrice = market[sync.regionID][tree.Materials[1].TypeID]
    /\ tree.Materials[1].MarketPrice # Zero
    /\ tree.Materials[2].MarketPrice # Zero
    /\ tree.Materials[1].Materials[1].MarketRegionID = sync.regionID

\* What the Tree Builder hands out: Buy, batch size 1, no material
\* efficiency, on every node.
BuilderDefaults(p) ==
    \A q \in Nodes(p) :
       /\ q.Kind = ProductBuy
       /\ q.BatchSize = 1
       /\ q.MaterialEfficiency = Zero

BuilderAlwaysDefaults ==
    \A t \in Types :
       ~CatalogLookupError(catalog, t, {}) =>
           BuilderDefaults(NewProduct(catalog, t))

\* C8 as stated: the Tree Builder returns chains of Buy nodes with batch size
\* 1 and no material efficiency, and a freshly created chain has no Build
\* node, since only editor operation M makes one.
C8_CreatedChainIsAllBuy ==
    /\ lastOp = "new" => BuilderAlwaysDefaults
    /\ (lastOp = "new" /\ err = "") => BuilderDefaults(tree)

\* C8 amended: the Tree Builder returns chains of Buy nodes with batch size 1
\* and no material efficiency; in the chain "product new" hands to the
\* editor the Build nodes are exactly the direct materials of the root that
\* have materials of their own; from then on only editor operation M changes
\* the kind of a node.
C8_KindsAfterCreation ==
    [][ /\ lastOp' = "new" => BuilderAlwaysDefaults
        /\ (lastOp' = "new" /\ err' = "") =>
              \A path \in Paths(tree') :
                 LET q == GetNode(tree', path) IN
                 /\ q.BatchSize = 1
                 /\ q.MaterialEfficiency = Zero
                 /\ q.Kind = ProductManufacture <=>
                       (Len(path) = 1 /\ q.Materials # << >>)
        /\ (InEditor /\ InEditor' /\ tree' # tree) =>
              \A path \in Paths(tree) :
                 GetNode(tree', path).Kind # GetNode(tree, path).Kind =>
                    lastOp' = "M"
      ]_vars

\* A fresh chain with a Build material and, one level further down, a node
\* that has materials and is Buy.
C8_Witness ==
    /\ InEditor
    /\ lastOp = "new"
    /\ err = ""
    /\ tree.Materials # << >>
    /\ tree.Materials[1].Kind = ProductManufacture
    /\ tree.Materials[1].Materials[1].Materials # << >>
    /\ tree.Materials[1].Materials[1].Kind = ProductBuy

\* No node that has materials carries a type of one of its ancestors.
RECURSIVE ExpandedOnce(_, _)
ExpandedOnce(p, onPath) ==
    /\ p.Materials # << >> => p.TypeID \notin onPath
    /\ \A i \in 1..Len(p.Materials) :
          ExpandedOnce(p.Materials[i], onPath \cup {p.TypeID})

\* Some node repeats the type of an ancestor (and was left as a leaf).
RECURSIVE RepeatsAncestor(_, _)
RepeatsAncestor(p, onPath) ==
    \/ p.TypeID \in onPath
    \/ \E i \in 1..Len(p.Materials) :
          RepeatsAncestor(p.Materials[i], onPath \cup {p.TypeID})

RECURSIVE Depth(_)
Depth(p) ==
    IF p.Materials = << >> THEN 1
    ELSE 1 + Depth(p.Materials[
                 CHOOSE i \in 1..Len(p.Materials) :
                    \A j \in 1..Len(p.Materials) :
                       Depth(p.Materials[j]) <= Depth(p.Materials[i])])

C10_LoadOfSaveIsIdentity ==
    [][ (lastOp' = "S" /\ err' = "") =>
           /\ Len(store') = Len(store) + 1
           /\ ~LoadFails(store'[Len(store')])
           /\ GetProduct(store'[Len(store')]) = Session
      ]_vars

\* A stored chain with two different materials under the root, the first a
\* Build node with a material of its own.
C10_Witness ==
    /\ lastOp = "S"
    /\ err = ""
    /\ store # << >>
    /\ LET q == GetProduct(store[Len(store)]) IN
       /\ Len(q.Materials) = 2
       /\ q.Materials[1].TypeID # q.Materials[2].TypeID
       /\ q.Materials[1].Kind = ProductManufacture
       /\ q.Materials[1].Materials # << >>
       /\ q.MarketPrice # Zero

\* C11: for the product a table is printed for, the batch quantity is its
\* quantity times its batch size, the revenue its market price times the
\* batch quantity, the profit the revenue minus its cost times the batch
\* quantity, and the margin the profit over the revenue times 100, or 0
\* when the revenue is 0.
C11_ProfitOverBatchQuantity ==
    display.shown =>
       LET p       == display.product
           bq      == Dec(p.Quantity * p.BatchSize)
           revenue == DMul(p.MarketPrice, bq)
       IN  /\ display.batchQuantity = bq
           /\ display.sellEach = revenue
           /\ display.profitEach = DSub(revenue, DMul(Cost(p), bq))
           /\ display.marginEach =
                 IF revenue = Zero THEN Zero
                 ELSE DMul(DDiv(display.profitEach, revenue), Dec(100))

\* C12: a price synchronization that directly follows a successful one of
\* the same product, for the same region and with the price service holding
\* the same prices, leaves every field of every node as the first one left
\* it; U is such a synchronization whenever it follows one, since it asks
\* for the region the first one recorded.
C12_SyncTwiceIsSyncOnce ==
    [][ /\ (lastOp' = "U" /\ err' = "" /\ sync # NoSync) =>
              sync'.regionID = sync.regionID
        /\ (lastOp' \in {"U", "R"} /\ err' = "" /\ sync # NoSync
               /\ sync'.regionID = sync.regionID) =>
              /\ tree' = tree
              /\ sync' = sync
      ]_vars

\* "product new" synchronized the chain and printed it, U synchronized it
\* again, and the chain is still the printed one: prices of the service on
\* some nodes, 0 on a node the service has no price for.
C12_Witness ==
    /\ InEditor
    /\ ops = 2
    /\ lastOp = "U"
    /\ err = ""
    /\ sync.regionID = tree.MarketRegionID
    /\ sync.missing # {}
    /\ display.product = tree
    /\ \E p \in Nodes(tree) :
          /\ p.TypeID \in DOMAIN market[sync.regionID]
          /\ p.MarketPrice = market[sync.regionID][p.TypeID]
    /\ \E p \in Nodes(tree) : p.Materials # << >> /\ p.MarketPrice = Zero

\* C13: for every Build node of a chain an editor session holds and any two
\* material efficiencies e1 < e2 the operator can give it (operation F), all
\* other fields left as they are, no material is required in a larger
\* quantity under e2 than under e1, and the node does not cost more under
\* e2 than under e1.
C13_EfficiencyNeverRaisesCost ==
    InEditor =>
       \A p \in Nodes(tree) :
          p.Kind = ProductManufacture =>
             \A e1, e2 \in {Zero} \cup EfficiencyInputs :
                DLt(e1, e2) =>
                   /\ \A i \in 1..Len(p.Materials) :
                         qtyAfterME(p.Materials[i].Quantity,
                                    Dec(p.BatchSize), e2)
                           <= qtyAfterME(p.Materials[i].Quantity,
                                         Dec(p.BatchSize), e1)
                   /\ DLe(Cost([p EXCEPT !.MaterialEfficiency = e2]),
                          Cost([p EXCEPT !.MaterialEfficiency = e1]))

\* C14: printing a product, which asks every line for its cost, changes no
\* field of any node; and whatever was printed and edited before, the costs
\* V prints are the ones that follow from the fields the chain has now: the
\* market price for a Buy product or material, the rollup over the current
\* materials for a Build one.
C14_CostIsPureAndFresh ==
    [][ /\ lastOp' \in {"V", "D"} => tree' = tree
        /\ lastOp' = "V" =>
              LET p == Session' IN
              /\ display'.product = p
              /\ display'.costEach =
                    IF p.Kind = ProductBuy
                    THEN DMul(p.MarketPrice, Dec(p.BatchSize))
                    ELSE MaterialCost(p)
              /\ \A i \in 1..Len(p.Materials) :
                    display'.lines[i].costEach =
                       IF p.Materials[i].Kind = ProductBuy
                       THEN p.Materials[i].MarketPrice
                       ELSE DDiv(MaterialCost(p.Materials[i]),
                                 Dec(p.Materials[i].BatchSize))
      ]_vars

\* The chain was printed when it was created, with a Buy root; the root was
\* then made a Build one, and V prints the rollup, not the market price.
C14_Witness ==
    /\ InEditor
    /\ lastOp = "V"
    /\ ops = 3
    /\ stack = << << >> >>
    /\ tree.Kind = ProductManufacture
    /\ display.product = tree
    /\ display.costEach = MaterialCost(tree)
    /\ display.costEach # DMul(tree.MarketPrice, Dec(tree.BatchSize))
    /\ store = << >>

\* Some row names a parent that is not among the rows.
HasOrphan(rows) ==
    \E i \in 1..Len(rows) :
       /\ rows[i].parentId # NoParent
       /\ \A j \in 1..Len(rows) : rows[j].id # rows[i].parentId

\* More than one row has no parent.
HasManyRoots(rows) ==
    \E i, j \in 1..Len(rows) :
       i # j /\ rows[i].parentId = NoParent /\ rows[j].parentId = NoParent

\* C15: loading stored rows among which one names a parent that is not
\* there, or among which more than one has no parent, fails: "product edit"
\* reports the error, gets no chain and opens no editor.
C15_LoadRejectsBrokenRows ==
    [][ (lastOp' = "edit" /\ Len(store) = 1
           /\ (HasOrphan(store[1]) \/ HasManyRoots(store[1]))) =>
           /\ LoadFails(store[1])
           /\ err' = "load"
           /\ tree' = NoProduct
           /\ stack' = << >>
      ]_vars

\* A refused load of four rows with one root, one of them an orphan.
C15_Witness ==
    /\ lastOp = "edit"
    /\ err = "load"
    /\ ~InEditor
    /\ tree = NoProduct
    /\ Len(store) = 1
    /\ Len(store[1]) = 4
    /\ HasOrphan(store[1])
    /\ ~HasManyRoots(store[1])
    /\ \E i \in 1..4 : store[1][i].parentId = NoParent

\* C17: Q ends the innermost session and stores nothing; S stores the rows
\* of the session's product once and ends the session when the store took
\* them, and when it did not, stores nothing and leaves the session and the
\* chain as they were; D opens a session inside the running ones; every
\* other operation leaves the sessions as they are and stores nothing; a
\* session opened by D that ends hands over to the one it was opened from,
\* with the chain as it is.
C17_SessionEndsOnQuitOrSave ==
    [][ /\ lastOp' = "Q" =>
              stack' = Return /\ store' = store
        /\ (lastOp' = "S" /\ err' = "") =>
              /\ stack' = Return
              /\ store' = Append(store, SaveProduct(Session))
        /\ (lastOp' = "S" /\ err' # "") =>
              stack' = stack /\ tree' = tree /\ store' = store
        /\ lastOp' = "D" =>
              /\ Len(stack') = Len(stack) + 1
              /\ SubSeq(stack', 1, Len(stack)) = stack
              /\ store' = store
        /\ lastOp' \in {"C", "F", "M", "B", "P", "V", "U", "R", "?"} =>
              stack' = stack /\ store' = store
        /\ (lastOp' \in {"Q", "S"} /\ Len(stack) > 1 /\ stack' # stack) =>
              /\ InEditor'
              /\ cur' = stack[Len(stack) - 1]
              /\ tree' = tree
      ]_vars

\* S in a session opened by D on the first material: the rows of that
\* material are stored and the session of the root goes on.
C17_Witness ==
    /\ lastOp = "S"
    /\ err = ""
    /\ stack = << << >> >>
    /\ Len(store) = 1
    /\ tree.Materials # << >>
    /\ GetProduct(store[1]) = tree.Materials[1]
    /\ GetProduct(store[1]) # tree

\* C16: a lookup of an alliance the table has a row for makes no call to
\* the remote API and, unless it fails, returns that row; a lookup of an
\* alliance the table has no row for that returns without error has called
\* the remote API once, returns its answer and has added it to the table;
\* rows stay in the table, so once a lookup of an alliance has returned
\* without error the table has its row and later lookups of it stay local;
\* a lookup whose local query failed has made no call to the remote API and
\* returns the error and no alliance.
C16_ReadThroughCache ==
    [][ lastOp' = "GetAlliance" =>
           LET id    == ret'.id
               local == { a \in alliances : a.AllianceID = id }
           IN  /\ alliances \subseteq alliances'
               /\ apiCalls' = apiCalls + (IF ret'.remote THEN 1 ELSE 0)
               /\ local # {} =>
                     /\ ~ret'.remote
                     /\ alliances' = alliances
                     /\ ret'.err = "" => ret'.alliance \in local
               /\ (local = {} /\ ret'.err = "") =>
                     /\ ret'.remote
                     /\ ret'.alliance = eveapiGetAlliance(id)
                     /\ alliances' = alliances \cup {ret'.alliance}
               /\ ret'.err = "" =>
                     \E a \in alliances' : a.AllianceID = id
               /\ ret'.err = "query" =>
                     ~ret'.remote /\ ret'.alliance = NoAlliance
      ]_vars

\* Two lookups and one call to the remote API: the second lookup returned,
\* from the table, the row the first one had fetched and written back.
C16_Witness ==
    /\ lastOp = "GetAlliance"
    /\ ops = 2
    /\ apiCalls = 1
    /\ ret.err = ""
    /\ ~ret.remote
    /\ ret.alliance = eveapiGetAlliance(ret.id)
    /\ ret.alliance \in alliances

\* C18: no connection taken from the pool by a lookup is still open once
\* the lookup has returned.
C18_ConnectionsClosed ==
    conns = 0

====
